---- MODULE Spec2Model ----
(***************************************************************************)
(* identfinder: for every string literal of a Go file, is the name of an   *)
(* identifier that is in scope at that point embedded in the literal?      *)
(*                                                                         *)
(* The model follows the last complete variant of the program              *)
(* (src/unnamed/part_000, lines 189-717): the matcher containsIdentifier / *)
(* isBoundary, the scope stack, and scopeVisitor.Visit driven by ast.Walk. *)
(*                                                                         *)
(* Text is modelled as a sequence of one-character strings, indexed from 0 *)
(* by At, as Go indexes a string.  Only ASCII occurs, so a byte is a rune. *)
(***************************************************************************)
EXTENDS Integers, Sequences, FiniteSets, TLC

VARIABLES
    \* ---- one call of containsIdentifier (specification SpecMatch) ----
    mLit,          \* argument literal
    mName,         \* argument id
    mStart,        \* local searchStart
    mPc,           \* "call" | "loop" | "true" | "false"
    \* ---- one run of the analyser (specifications Spec, SpecRun) ----
    files,         \* the parsed files the run analyses, in order
    fileIdx,       \* index in files of the file being (or last) analysed
    srcLines,      \* scopeVisitor.srcLines
    pc,            \* "idle" | "walk" | "panic"
    agenda,        \* what ast.Walk still has to do, innermost first
    scopeStack,    \* scopeVisitor.scopeStack: a sequence of sets of names
    matches,       \* scopeVisitor.matches
    stringCount,   \* scopeVisitor.stringCount
    matchCount,    \* scopeVisitor.matchCount
    totalStrings,  \* global counter
    matchedStrings,\* global counter
    seen,          \* log: one entry per checkString call of the current walk,
                   \*      frames the scope stack at the call,
                   \*      rec the index of the record it appended, or 0
    left,          \* log: one entry per popScope call of the current walk
    returned       \* log: what analyzeFileWithLines returned, per file

mvars == <<mLit, mName, mStart, mPc>>
wvars == <<files, fileIdx, srcLines, pc, agenda, scopeStack, matches,
           stringCount, matchCount, totalStrings, matchedStrings,
           seen, left, returned>>
vars == <<mvars, wvars>>

----------------------------------------------------------------------------
(* Bounds *)

MaxLitLen == 4      \* longest literal given to the matcher in SpecMatch
MaxNameLen == 2     \* longest name given to the matcher in SpecMatch

----------------------------------------------------------------------------
(* Characters *)

\* The characters of literal text: a letter, a digit, underscore, percent,
\* backslash and space.
Chars == {"a", "1", "_", "%", "\\", " "}

\* The characters of a name (a Go identifier).
IdentChars == {"a", "1", "_"}

\* The other characters that occur in the literals of the syntax trees.
TreeChars == Chars \cup {"b", "f", "\""}

\* unicode.IsSpace
IsSpace(r) == r \in {" "}

\* unicode.IsPunct: '_' is connector punctuation (Pc), '%', '\' and '"' are
\* other punctuation (Po).
IsPunct(r) == r \in {"_", "%", "\\", "\""}

\* unicode.IsSymbol: none of the characters above is a symbol.
IsSymbol(r) == r \in {}

\* isBoundary that takes '%' and '\' for the punctuation they are
isBoundary_NoExclusion(r) ==
    IF IsSpace(r) THEN TRUE
    ELSE IF IsPunct(r) \/ IsSymbol(r) THEN TRUE
         ELSE FALSE

isBoundary(r) ==
    IF IsSpace(r) THEN TRUE
    ELSE IF IsPunct(r) \/ IsSymbol(r)
         THEN IF r = "\\" \/ r = "%" THEN FALSE ELSE TRUE
         ELSE FALSE

----------------------------------------------------------------------------
(* Strings *)

At(s, i) == s[i + 1]                       \* s[i]
From(s, i) == SubSeq(s, i + 1, Len(s))     \* s[i:]
Slice(s, i, j) == SubSeq(s, i + 1, j)      \* s[i:j]

\* strings.Index(s, sub): the first index of sub in s, or -1
Index(s, sub) ==
    LET hits == {i \in 0..(Len(s) - Len(sub)) : Slice(s, i, i + Len(sub)) = sub}
    IN IF hits = {} THEN -1
       ELSE CHOOSE i \in hits : \A j \in hits : i <= j

RECURSIVE SeqsOfLen(_, _)
SeqsOfLen(S, n) ==
    IF n = 0 THEN {<<>>}
    ELSE {Append(s, c) : s \in SeqsOfLen(S, n - 1), c \in S}

SeqsUpTo(S, n) == UNION {SeqsOfLen(S, k) : k \in 0..n}

----------------------------------------------------------------------------
(* containsIdentifier *)

\* containsIdentifierIter without the check of the following character
containsIdentifierIter_NoFollowing(literal, id, start) ==
    LET idx == Index(From(literal, start), id)
        pos == start + idx
    IN IF idx = -1 THEN [ret |-> "false", searchStart |-> start]
       ELSE IF pos > 0 /\ At(literal, pos - 1) \in {"\\", "%"}
            THEN [ret |-> "continue", searchStart |-> pos + Len(id)]
       ELSE IF pos > 0 /\ ~isBoundary(At(literal, pos - 1))
            THEN [ret |-> "continue", searchStart |-> pos + Len(id)]
       ELSE [ret |-> "true", searchStart |-> start]

\* containsIdentifierIter that searches again from the rejected position when
\* the following character is no boundary
containsIdentifierIter_NoProgress(literal, id, start) ==
    LET idx == Index(From(literal, start), id)
        pos == start + idx
        end == pos + Len(id) - 1
    IN IF idx = -1 THEN [ret |-> "false", searchStart |-> start]
       ELSE IF pos > 0 /\ At(literal, pos - 1) \in {"\\", "%"}
            THEN [ret |-> "continue", searchStart |-> pos + Len(id)]
       ELSE IF pos > 0 /\ ~isBoundary(At(literal, pos - 1))
            THEN [ret |-> "continue", searchStart |-> pos + Len(id)]
       ELSE IF end < Len(literal) - 1 /\ ~isBoundary(At(literal, end + 1))
            THEN [ret |-> "continue", searchStart |-> pos]
       ELSE [ret |-> "true", searchStart |-> start]

\* One iteration of the for loop, entered with searchStart = start:
\* it returns true, leaves the loop (the function returns false), or
\* continues with a new searchStart.
containsIdentifierIter(literal, id, start) ==
    LET idx == Index(From(literal, start), id)
        pos == start + idx
        end == pos + Len(id) - 1
    IN IF idx = -1 THEN [ret |-> "false", searchStart |-> start]
       ELSE IF pos > 0 /\ At(literal, pos - 1) \in {"\\", "%"}
            THEN [ret |-> "continue", searchStart |-> pos + Len(id)]
       ELSE IF pos > 0 /\ ~isBoundary(At(literal, pos - 1))
            THEN [ret |-> "continue", searchStart |-> pos + Len(id)]
       ELSE IF end < Len(literal) - 1 /\ ~isBoundary(At(literal, end + 1))
            THEN [ret |-> "continue", searchStart |-> pos + 1]
       ELSE [ret |-> "true", searchStart |-> start]

RECURSIVE containsIdentifierFrom(_, _, _)
containsIdentifierFrom(literal, id, start) ==
    LET r == containsIdentifierIter(literal, id, start)
    IN IF r.ret = "continue"
       THEN containsIdentifierFrom(literal, id, r.searchStart)
       ELSE r.ret = "true"

containsIdentifier(literal, id) ==
    IF id = <<>> THEN FALSE ELSE containsIdentifierFrom(literal, id, 0)

\* containsIdentifier of src/main.go, entered with idx = start
RECURSIVE MainContainsIdentifierFrom(_, _, _)
MainContainsIdentifierFrom(literal, id, start) ==
    LET loc == Index(From(literal, start), id)
        absPos == start + loc
    IN IF loc < 0 THEN FALSE
       ELSE IF absPos > 0 /\ At(literal, absPos - 1) \in {"%", "\\"}
            THEN MainContainsIdentifierFrom(literal, id, absPos + Len(id))
            ELSE TRUE

MainContainsIdentifier(literal, id) == MainContainsIdentifierFrom(literal, id, 0)

\* containsIdentifier as the given source file has it
Contains(source, literal, id) ==
    IF source = "main.go" THEN MainContainsIdentifier(literal, id)
    ELSE containsIdentifier(literal, id)

\* What the specification asks of the matcher: some position of the literal
\* holds the name, with a boundary character (or nothing) on either side.
AcceptedAt(literal, id, p) ==
    /\ p + Len(id) <= Len(literal)
    /\ Slice(literal, p, p + Len(id)) = id
    /\ (p = 0 \/ isBoundary(At(literal, p - 1)))
    /\ (p + Len(id) = Len(literal) \/ isBoundary(At(literal, p + Len(id))))

Occurs(literal, id) ==
    /\ id # <<>>
    /\ \E p \in 0..Len(literal) : AcceptedAt(literal, id, p)

----------------------------------------------------------------------------
(* Syntax trees.                                                           *)
(*                                                                         *)
(* A node is a record: its kind (the Go type of the ast.Node), the fields  *)
(* Visit reads, and kids, its children in the order ast.Walk visits them.  *)
(* A node of a tree is named by its path, the child indices from the root. *)

NoFields == [nil |-> TRUE, list |-> <<>>]        \* a nil *ast.FieldList
Fields(l) == [nil |-> FALSE, list |-> l]         \* l[i] = List[i].Names

Node(kind, kids) ==
    [kind |-> kind, name |-> <<>>, tok |-> "", value |-> <<>>, line |-> 0,
     nlhs |-> 0, params |-> NoFields, results |-> NoFields, kids |-> kids]

Ident(name) == [Node("Ident", <<>>) EXCEPT !.name = name]

BasicLit(kind, value, line) ==
    [Node("BasicLit", <<>>) EXCEPT !.tok = kind, !.value = value, !.line = line]

Idents(names) == [i \in 1..Len(names) |-> Ident(names[i])]

\* Lhs tok Rhs
AssignStmt(lhs, tok, rhs) ==
    [Node("AssignStmt", Idents(lhs) \o rhs) EXCEPT !.tok = tok, !.nlhs = Len(lhs)]

\* var Names = Values
ValueSpec(names, values) ==
    [Node("ValueSpec", Idents(names) \o values) EXCEPT !.nlhs = Len(names)]

GenDecl(specs) == Node("GenDecl", specs)
DeclStmt(decl) == Node("DeclStmt", <<decl>>)
ExprStmt(x) == Node("ExprStmt", <<x>>)
BlockStmt(list) == Node("BlockStmt", list)

\* if Init; Cond Body
IfStmt(init, cond, body) == Node("IfStmt", <<init, cond, body>>)

\* func Name(Type.Params) Type.Results Body; typeExprs are the expressions of
\* the parameter and result types, body is <<>> (no body) or <<BlockStmt>>
FuncDecl(name, params, results, typeExprs, body) ==
    [Node("FuncDecl", <<Ident(name), Node("FuncType", typeExprs)>> \o body)
        EXCEPT !.name = name, !.params = params, !.results = results]

File(decls) == Node("File", decls)

RECURSIVE NodeAt(_, _)
NodeAt(t, p) == IF p = <<>> THEN t ELSE NodeAt(t.kids[Head(p)], Tail(p))

RECURSIVE Paths(_)
Paths(t) ==
    {<<>>} \cup UNION {{<<i>> \o p : p \in Paths(t.kids[i])} : i \in 1..Len(t.kids)}

IsPrefix(p, q) == Len(p) <= Len(q) /\ SubSeq(q, 1, Len(p)) = p

\* p is visited before q in a depth-first walk in source order
WalkedBefore(p, q) ==
    \/ IsPrefix(p, q) /\ p # q
    \/ \E i \in 1..Len(p) :
          /\ i <= Len(q)
          /\ SubSeq(p, 1, i - 1) = SubSeq(q, 1, i - 1)
          /\ p[i] < q[i]

StringLits(t) ==
    {p \in Paths(t) : NodeAt(t, p).kind = "BasicLit" /\ NodeAt(t, p).tok = "STRING"}

----------------------------------------------------------------------------
(* The files of a run *)

MaxNodes == 4     \* declarations, named fields and statements of a file

nA == <<"a">>
nB == <<"b">>
nF == <<"f">>
nAA == <<"a", "_", "a">>

Quoted(text) == <<"\"">> \o text \o <<"\"">>
tAB == <<"a", " ", "b">>                   \* a b
tBAA == <<"b", "a", "_", "a", "_", "a">>   \* ba_a_a

\* The statements without a block:
\*    "ba_a_a"        a := "a b"        b = 1        var b = "a b"
LitStmt == ExprStmt(BasicLit("STRING", Quoted(tBAA), 1))
ShortDeclStmt == AssignStmt(<<nA>>, ":=", <<BasicLit("STRING", Quoted(tAB), 2)>>)
PlainAssignStmt == AssignStmt(<<nB>>, "=", <<BasicLit("INT", <<"1">>, 3)>>)
VarDeclStmt ==
    DeclStmt(GenDecl(<<ValueSpec(<<nB>>, <<BasicLit("STRING", Quoted(tAB), 4)>>)>>))

Leaves == {LitStmt, ShortDeclStmt, PlainAssignStmt, VarDeclStmt}

\* The union of the sets of a sequence
RECURSIVE Cups(_)
Cups(sets) == IF sets = <<>> THEN {} ELSE Head(sets) \cup Cups(Tail(sets))

\* Statement lists of n statements, blocks and the statements in them counted:
\*    { list }        if a := 1; a { list }
\* lists[k + 1] holds the lists of k statements, for the k below n.
Stmts(lists, k) ==
    (IF k = 1 THEN Leaves ELSE {})
    \cup {BlockStmt(l) : l \in lists[k]}
    \cup {IfStmt(AssignStmt(<<nA>>, ":=", <<BasicLit("INT", <<"1">>, 3)>>),
                 Ident(nA), BlockStmt(l)) : l \in lists[k]}

RECURSIVE StmtListsUpTo(_, _)
StmtListsUpTo(lists, n) ==
    IF n >= MaxNodes THEN lists
    ELSE LET more == Cups([k \in 1..n |->
                              {<<s>> \o r : s \in Stmts(lists, k), r \in lists[n - k + 1]}])
         IN StmtListsUpTo(Append(lists, more), n + 1)

AllStmtLists == StmtListsUpTo(<<{<<>>}>>, 1)

StmtLists(n) == AllStmtLists[n + 1]

\* The function signatures, and what each counts for (its named fields and
\* the literals of its types):
\*    func f()    func f(a T)    func a(T) (b T)    func f(a_a T)
\*    func f(a [len("a b")]T)
Sig(name, params, results, typeExprs, nodes) ==
    [name |-> name, params |-> params, results |-> results,
     typeExprs |-> typeExprs, nodes |-> nodes]

SigF == Sig(nF, Fields(<<>>), NoFields, <<>>, 0)
SigFA == Sig(nF, Fields(<<(<<nA>>)>>), NoFields, <<>>, 1)
SigAB == Sig(nA, Fields(<<(<<>>)>>), Fields(<<(<<nB>>)>>), <<>>, 1)
SigFAA == Sig(nF, Fields(<<(<<nAA>>)>>), NoFields, <<>>, 1)
SigLit == Sig(nF, Fields(<<(<<nA>>)>>), NoFields,
              <<BasicLit("STRING", Quoted(tAB), 5)>>, 2)

Signatures == <<SigF, SigFA, SigAB, SigFAA, SigLit>>

Func(sig, body) == FuncDecl(sig.name, sig.params, sig.results, sig.typeExprs, body)

\* func f()     a function without a body
ExternalFunc == FuncDecl(nF, Fields(<<>>), NoFields, <<>>, <<>>)

\* var a = "a b"     a declaration at the top level
TopDecl == GenDecl(<<ValueSpec(<<nA>>, <<BasicLit("STRING", Quoted(tAB), 5)>>)>>)

\* The top-level declarations of n nodes
Decls(n) ==
    (IF n = 1 THEN {TopDecl, ExternalFunc} ELSE {})
    \cup Cups([i \in DOMAIN Signatures |->
                 LET sig == Signatures[i]
                 IN IF sig.nodes <= n - 1
                    THEN {Func(sig, <<BlockStmt(l)>>) : l \in StmtLists(n - 1 - sig.nodes)}
                    ELSE {}])

\* lists[k + 1] holds the lists of declarations of k nodes, for the k below n.
RECURSIVE DeclListsUpTo(_, _)
DeclListsUpTo(lists, n) ==
    IF n > MaxNodes THEN lists
    ELSE LET more == Cups([k \in 1..n |->
                              {<<d>> \o r : d \in Decls(k), r \in lists[n - k + 1]}])
         IN DeclListsUpTo(Append(lists, more), n + 1)

AllDeclLists == DeclListsUpTo(<<{<<>>}>>, 1)

DeclLists(n) == AllDeclLists[n + 1]

Trees == {File(ds) : ds \in Cups(AllDeclLists)}

Lines5 == <<"L1", "L2", "L3", "L4", "L5">>

\* A file that parses, a file that go/parser rejects, a file without lines
GoFile(t) == [filePath |-> "x.go", lines |-> Lines5, parseOk |-> TRUE, tree |-> t]
BadFile == [filePath |-> "bad.go", lines |-> Lines5, parseOk |-> FALSE, tree |-> File(<<>>)]
EmptyFile == [filePath |-> "e.go", lines |-> <<>>, parseOk |-> TRUE, tree |-> File(<<>>)]

SpecFiles == {GoFile(t) : t \in Trees} \cup {BadFile, EmptyFile}

----------------------------------------------------------------------------
(* The scope stack *)

pushScope(stack) == Append(stack, {})

\* popScope that keeps the names of the popped scope in the scope below
popScope_Merge(stack) ==
    LET rest == SubSeq(stack, 1, Len(stack) - 1)
    IN IF rest = <<>> THEN rest
       ELSE [rest EXCEPT ![Len(rest)] = @ \cup stack[Len(stack)]]

\* popScope that also removes the names of the popped scope from the scopes
\* below
popScope_Unshadow(stack) ==
    [i \in 1..(Len(stack) - 1) |-> stack[i] \ stack[Len(stack)]]

popScope(stack) == SubSeq(stack, 1, Len(stack) - 1)

\* addName adds an identifier to the top scope of the stack
addName(stack, name) == [stack EXCEPT ![Len(stack)] = @ \cup {name}]

RECURSIVE addNames(_, _)
addNames(stack, names) ==
    IF names = <<>> THEN stack
    ELSE addNames(addName(stack, Head(names)), Tail(names))

RECURSIVE Perms(_)
Perms(S) ==
    IF S = {} THEN {<<>>}
    ELSE UNION {{<<x>> \o q : q \in Perms(S \ {x})} : x \in S}

\* inScope that also returns a name no scope holds
RECURSIVE inScope_Stray(_)
inScope_Stray(stack) ==
    IF stack = <<>> THEN {<<nB>>}
    ELSE {h \o t : h \in Perms(Head(stack)), t \in inScope_Stray(Tail(stack))}

\* inScope returns the names of all the scopes, bottom scope first.  Each
\* scope is a Go map, and ranging over a map yields its keys in an order the
\* language leaves open: the result is any of these lists.
RECURSIVE inScope(_)
inScope(stack) ==
    IF stack = <<>> THEN {<<>>}
    ELSE {h \o t : h \in Perms(Head(stack)), t \in inScope(Tail(stack))}

\* The visible names: the names inScope returns, as a set
Visible(stack) == UNION {stack[i] : i \in 1..Len(stack)}

----------------------------------------------------------------------------
(* checkString *)

Cutset == {"\""}

RECURSIVE TrimLeft(_), TrimRight(_)
TrimLeft(s) == IF s # <<>> /\ Head(s) \in Cutset THEN TrimLeft(Tail(s)) ELSE s
TrimRight(s) ==
    IF s # <<>> /\ s[Len(s)] \in Cutset THEN TrimRight(SubSeq(s, 1, Len(s) - 1)) ELSE s

\* strings.Trim(s, cutset); the trees hold no raw string literal, so the
\* back quote of the cutset is left out.
Trim(s) == TrimRight(TrimLeft(s))

\* The first name of the list that the literal contains, for the matcher of
\* the given source file: its index, or 0
FirstMatchBy(source, names, literalText) ==
    LET hits == {i \in 1..Len(names) : Contains(source, literalText, names[i])}
    IN IF hits = {} THEN 0 ELSE CHOOSE i \in hits : \A j \in hits : i <= j

FirstMatch(names, literalText) == FirstMatchBy("part_000", names, literalText)

\* a list of records that grows at its front
appendMatch_Front(ms, m) == <<m>> \o ms

\* v.matches = append(v.matches, matchInfo{...})
appendMatch(ms, m) == Append(ms, m)

MatchInfo(file, line, id, text, entire) ==
    [File |-> file, LineNumber |-> line, Identifier |-> id,
     StringText |-> text, EntireLine |-> entire]

----------------------------------------------------------------------------
(* The walk: ast.Walk(v, node) calls v.Visit(node) and, when Visit returns *)
(* v, walks the children of node in order (and ends with v.Visit(nil),     *)
(* which does nothing).  agenda holds what is left to do: the nodes still  *)
(* to walk and, behind the nodes of a function or block that Visit walks   *)
(* itself, the popScope that ends that call of Visit.                      *)

Tree == files[fileIdx].tree

WalkItem(p) == [op |-> "walk", path |-> p, before |-> {}]
PopItem(p, before) == [op |-> "pop", path |-> p, before |-> before]

Children(p, node) == [i \in 1..Len(node.kids) |-> WalkItem(p \o <<i>>)]

AtNode(kinds) ==
    /\ pc = "walk"
    /\ agenda # <<>>
    /\ Head(agenda).op = "walk"
    /\ NodeAt(Tree, Head(agenda).path).kind \in kinds

Here == Head(agenda).path
ThisNode == NodeAt(Tree, Here)

RECURSIVE Flatten(_)
Flatten(ss) == IF ss = <<>> THEN <<>> ELSE Head(ss) \o Flatten(Tail(ss))

\* The names of a field list, in order; none when the list is nil
FieldNames(fl) == IF fl.nil THEN <<>> ELSE Flatten(fl.list)

\* FuncDeclNames without the named results
FuncDeclNames_NoResults(node) ==
    <<node.name>> \o FieldNames(node.params)

\* The names Visit declares at a function declaration
FuncDeclNames(node) ==
    <<node.name>> \o FieldNames(node.params) \o FieldNames(node.results)

\* AssignStmtNames of a Visit that declares nothing at an assignment
AssignStmtNames_None(node) == <<>>

\* The names Visit declares at an assignment: the identifiers of Lhs of :=
AssignStmtNames(node) ==
    IF node.tok = ":="
    THEN Flatten([i \in 1..node.nlhs |->
                    IF node.kids[i].kind = "Ident"
                    THEN <<node.kids[i].name>> ELSE <<>>])
    ELSE <<>>

\* The names Visit declares for one spec of a local declaration
SpecNames(spec) ==
    IF spec.kind = "ValueSpec"
    THEN [i \in 1..spec.nlhs |-> spec.kids[i].name]
    ELSE IF spec.kind = "TypeSpec" THEN <<spec.kids[1].name>>
    ELSE <<>>

\* The names Visit declares at a declaration statement
DeclStmtNames(node) ==
    IF node.kids[1].kind = "GenDecl"
    THEN Flatten([i \in 1..Len(node.kids[1].kids) |-> SpecNames(node.kids[1].kids[i])])
    ELSE <<>>

HandledKinds == {"File", "FuncDecl", "BlockStmt", "AssignStmt", "DeclStmt", "BasicLit"}

LogUnchanged == UNCHANGED <<seen, left, returned>>
CountsUnchanged ==
    UNCHANGED <<matches, stringCount, matchCount, totalStrings, matchedStrings>>
RunUnchanged == UNCHANGED <<files, fileIdx, srcLines, pc, mvars>>

\* case *ast.File: return v
VisitFile ==
    /\ AtNode({"File"})
    /\ agenda' = Children(Here, ThisNode) \o Tail(agenda)
    /\ UNCHANGED scopeStack
    /\ CountsUnchanged /\ LogUnchanged /\ RunUnchanged

\* VisitFuncDecl that declares the name of the function in the scope around
\* the declaration, as Go does
VisitFuncDecl_NameOutside ==
    /\ AtNode({"FuncDecl"})
    /\ scopeStack' = addNames(pushScope(addName(scopeStack, ThisNode.name)),
                              FuncDeclNames(ThisNode))
    /\ agenda' = (IF Len(ThisNode.kids) = 3 THEN <<WalkItem(Here \o <<3>>)>> ELSE <<>>)
                 \o <<PopItem(Here, Visible(scopeStack))>> \o Tail(agenda)
    /\ CountsUnchanged /\ LogUnchanged /\ RunUnchanged

\* case *ast.FuncDecl: push a scope, add the names, walk the body;
\* popScope and return nil follow when the body is done
VisitFuncDecl ==
    /\ AtNode({"FuncDecl"})
    /\ scopeStack' = addNames(pushScope(scopeStack), FuncDeclNames(ThisNode))
    /\ agenda' = (IF Len(ThisNode.kids) = 3 THEN <<WalkItem(Here \o <<3>>)>> ELSE <<>>)
                 \o <<PopItem(Here, Visible(scopeStack))>> \o Tail(agenda)
    /\ CountsUnchanged /\ LogUnchanged /\ RunUnchanged

\* VisitBlockStmt that declares the names of the := statements of the block
\* on entering it
VisitBlockStmt_Hoists ==
    /\ AtNode({"BlockStmt"})
    /\ scopeStack' =
          addNames(pushScope(scopeStack),
                   Flatten([i \in 1..Len(ThisNode.kids) |->
                              IF ThisNode.kids[i].kind = "AssignStmt"
                              THEN AssignStmtNames(ThisNode.kids[i]) ELSE <<>>]))
    /\ agenda' = Children(Here, ThisNode)
                 \o <<PopItem(Here, Visible(scopeStack))>> \o Tail(agenda)
    /\ CountsUnchanged /\ LogUnchanged /\ RunUnchanged

\* VisitBlockStmt that opens no scope for the block
VisitBlockStmt_NoPush ==
    /\ AtNode({"BlockStmt"})
    /\ UNCHANGED scopeStack
    /\ agenda' = Children(Here, ThisNode)
                 \o <<PopItem(Here, Visible(scopeStack))>> \o Tail(agenda)
    /\ CountsUnchanged /\ LogUnchanged /\ RunUnchanged

\* case *ast.BlockStmt: push a scope, walk the statements;
\* popScope and return nil follow when the statements are done
VisitBlockStmt ==
    /\ AtNode({"BlockStmt"})
    /\ scopeStack' = pushScope(scopeStack)
    /\ agenda' = Children(Here, ThisNode)
                 \o <<PopItem(Here, Visible(scopeStack))>> \o Tail(agenda)
    /\ CountsUnchanged /\ LogUnchanged /\ RunUnchanged

\* v.popScope(); return nil -- the end of the FuncDecl and BlockStmt cases
PopScope ==
    /\ pc = "walk"
    /\ agenda # <<>>
    /\ Head(agenda).op = "pop"
    /\ scopeStack' = popScope(scopeStack)
    /\ agenda' = Tail(agenda)
    /\ left' = Append(left, [path |-> Here,
                             before |-> Head(agenda).before,
                             depth |-> Len(scopeStack),
                             top |-> scopeStack[Len(scopeStack)],
                             after |-> Visible(scopeStack')])
    /\ UNCHANGED <<seen, returned>>
    /\ CountsUnchanged /\ RunUnchanged

\* case *ast.AssignStmt: add the names of a := ; return v
VisitAssignStmt ==
    /\ AtNode({"AssignStmt"})
    /\ scopeStack' = addNames(scopeStack, AssignStmtNames(ThisNode))
    /\ agenda' = Children(Here, ThisNode) \o Tail(agenda)
    /\ CountsUnchanged /\ LogUnchanged /\ RunUnchanged

\* case *ast.DeclStmt: add the names of the local declaration; return v
VisitDeclStmt ==
    /\ AtNode({"DeclStmt"})
    /\ scopeStack' = addNames(scopeStack, DeclStmtNames(ThisNode))
    /\ agenda' = Children(Here, ThisNode) \o Tail(agenda)
    /\ CountsUnchanged /\ LogUnchanged /\ RunUnchanged

\* case *ast.BasicLit: a string is counted and checked (checkString) with the
\* matcher of the given source file; return v
VisitBasicLitBy(source) ==
    /\ AtNode({"BasicLit"})
    /\ agenda' = Children(Here, ThisNode) \o Tail(agenda)
    /\ UNCHANGED scopeStack
    /\ IF ThisNode.tok = "STRING"
       THEN LET literalText == Trim(ThisNode.value)
                linePos == ThisNode.line
                entireLine == IF linePos - 1 >= 0 /\ linePos - 1 < Len(srcLines)
                              THEN srcLines[linePos] ELSE ""
            IN \E names \in inScope(scopeStack) :
                 LET k == FirstMatchBy(source, names, literalText)
                 IN /\ stringCount' = stringCount + 1
                    /\ totalStrings' = totalStrings + 1
                    /\ matchCount' = IF k = 0 THEN matchCount ELSE matchCount + 1
                    /\ matchedStrings' =
                          IF k = 0 THEN matchedStrings ELSE matchedStrings + 1
                    /\ matches' =
                          IF k = 0 THEN matches
                          ELSE appendMatch(matches,
                                           MatchInfo(files[fileIdx].filePath, linePos,
                                                     names[k], literalText, entireLine))
                    /\ seen' = Append(seen, [path |-> Here,
                                             depth |-> Len(scopeStack),
                                             visible |-> Visible(scopeStack),
                                             frames |-> scopeStack,
                                             rec |-> IF k = 0 THEN 0
                                                     ELSE Len(matches) + 1])
       ELSE /\ CountsUnchanged
            /\ UNCHANGED seen
    /\ UNCHANGED <<left, returned>>
    /\ RunUnchanged

VisitBasicLit == VisitBasicLitBy("part_000")

\* VisitOther that gives an if statement a scope of its own, as Go does
VisitOther_IfScoped ==
    /\ pc = "walk"
    /\ agenda # <<>>
    /\ Head(agenda).op = "walk"
    /\ ThisNode.kind \notin HandledKinds
    /\ scopeStack' = IF ThisNode.kind = "IfStmt" THEN pushScope(scopeStack)
                     ELSE scopeStack
    /\ agenda' = Children(Here, ThisNode)
                 \o (IF ThisNode.kind = "IfStmt"
                     THEN <<PopItem(Here, Visible(scopeStack))>> ELSE <<>>)
                 \o Tail(agenda)
    /\ CountsUnchanged /\ LogUnchanged /\ RunUnchanged

\* any other node: return v
VisitOther ==
    /\ pc = "walk"
    /\ agenda # <<>>
    /\ Head(agenda).op = "walk"
    /\ ThisNode.kind \notin HandledKinds
    /\ agenda' = Children(Here, ThisNode) \o Tail(agenda)
    /\ UNCHANGED scopeStack
    /\ CountsUnchanged /\ LogUnchanged /\ RunUnchanged

----------------------------------------------------------------------------
(* analyzeFileWithLines *)

FileResult(lines, strings, matched, ms) ==
    [totalLines |-> lines, stringCount |-> strings, matchCount |-> matched,
     matches |-> ms]

NextFile == files[fileIdx + 1]

\* AnalyzeFileFails that returns the number of lines it has read
AnalyzeFileFails_CountsLines ==
    /\ pc = "idle"
    /\ fileIdx < Len(files)
    /\ NextFile.lines = <<>> \/ ~NextFile.parseOk
    /\ fileIdx' = fileIdx + 1
    /\ returned' = Append(returned, FileResult(Len(NextFile.lines), 0, 0, <<>>))
    /\ UNCHANGED <<files, srcLines, pc, agenda, scopeStack, seen, left, mvars>>
    /\ CountsUnchanged

\* the file cannot be read, has no line, or does not parse: return 0, 0, 0, nil
AnalyzeFileFails ==
    /\ pc = "idle"
    /\ fileIdx < Len(files)
    /\ NextFile.lines = <<>> \/ ~NextFile.parseOk
    /\ fileIdx' = fileIdx + 1
    /\ returned' = Append(returned, FileResult(0, 0, 0, <<>>))
    /\ UNCHANGED <<files, srcLines, pc, agenda, scopeStack, seen, left, mvars>>
    /\ CountsUnchanged

\* AnalyzeFileWalks that starts the process-wide counters again for each file
AnalyzeFileWalks_ResetsTotals ==
    /\ pc = "idle"
    /\ fileIdx < Len(files)
    /\ NextFile.lines # <<>> /\ NextFile.parseOk
    /\ fileIdx' = fileIdx + 1
    /\ pc' = "walk"
    /\ srcLines' = NextFile.lines
    /\ scopeStack' = <<{}>>
    /\ matches' = <<>>
    /\ stringCount' = 0
    /\ matchCount' = 0
    /\ totalStrings' = 0
    /\ matchedStrings' = 0
    /\ agenda' = <<WalkItem(<<>>)>>
    /\ seen' = <<>>
    /\ left' = <<>>
    /\ UNCHANGED <<files, returned, mvars>>

\* the file parses: v := newScopeVisitor(fset, filePath, srcLines); ast.Walk(v, node)
AnalyzeFileWalks ==
    /\ pc = "idle"
    /\ fileIdx < Len(files)
    /\ NextFile.lines # <<>> /\ NextFile.parseOk
    /\ fileIdx' = fileIdx + 1
    /\ pc' = "walk"
    /\ srcLines' = NextFile.lines
    /\ scopeStack' = <<{}>>
    /\ matches' = <<>>
    /\ stringCount' = 0
    /\ matchCount' = 0
    /\ agenda' = <<WalkItem(<<>>)>>
    /\ seen' = <<>>
    /\ left' = <<>>
    /\ UNCHANGED <<files, totalStrings, matchedStrings, returned, mvars>>

\* the walk is over: return totalLines, v.stringCount, v.matchCount, v.matches
AnalyzeFileReturns ==
    /\ pc = "walk"
    /\ agenda = <<>>
    /\ pc' = "idle"
    /\ returned' = Append(returned,
                          FileResult(Len(srcLines), stringCount, matchCount, matches))
    /\ UNCHANGED <<files, fileIdx, srcLines, agenda, scopeStack, seen, left, mvars>>
    /\ CountsUnchanged

MatcherIdle ==
    /\ mLit = <<>>
    /\ mName = <<>>
    /\ mStart = 0
    /\ mPc = "call"

RunStart ==
    /\ fileIdx = 0
    /\ srcLines = <<>>
    /\ pc = "idle"
    /\ agenda = <<>>
    /\ scopeStack = <<>>
    /\ matches = <<>>
    /\ stringCount = 0
    /\ matchCount = 0
    /\ totalStrings = 0
    /\ matchedStrings = 0
    /\ seen = <<>>
    /\ left = <<>>
    /\ returned = <<>>
    /\ MatcherIdle

\* Specification Spec: the analysis of one file
Init ==
    /\ files \in {<<f>> : f \in SpecFiles}
    /\ RunStart

Next ==
    \/ AnalyzeFileFails
    \/ AnalyzeFileWalks
    \/ VisitFile
    \/ VisitFuncDecl
    \/ VisitBlockStmt
    \/ PopScope
    \/ VisitAssignStmt
    \/ VisitDeclStmt
    \/ VisitBasicLit
    \/ VisitOther
    \/ AnalyzeFileReturns

Spec == Init /\ [][Next]_vars

\* Specification SpecRun: a run that analyses several files, one after the
\* other; the same file may come twice.
MaxFiles == 2

\* func a(T) (b T) { a := "a b" }
RunFileA == GoFile(File(<<Func(SigAB, <<BlockStmt(<<ShortDeclStmt>>)>>)>>))

\* var a = "a b"; func f(a T) { var b = "a b"; "ba_a_a" }
RunFileB ==
    GoFile(File(<<TopDecl, Func(SigFA, <<BlockStmt(<<VarDeclStmt, LitStmt>>)>>)>>))

\* The same file read with other lines: one line, so that the lines of its
\* literals but the first are out of range
OtherLines(f) == [f EXCEPT !.lines = <<"M1">>]

RunFiles == {RunFileA, RunFileB, BadFile, OtherLines(RunFileA), OtherLines(RunFileB)}

InitRun ==
    /\ files \in UNION {SeqsOfLen(RunFiles, n) : n \in 1..MaxFiles}
    /\ RunStart

SpecRun == InitRun /\ [][Next]_vars

\* The walk of the current file is over
WalkDone == pc = "walk" /\ agenda = <<>>

----------------------------------------------------------------------------
(* The scope visitor of src/main.go (specification SpecMain).  It differs  *)
(* from the one above in containsIdentifier (MainContainsIdentifier looks  *)
(* at the preceding character only) and in the FuncDecl and BlockStmt      *)
(* cases of Visit, which read Type.Params and Body without asking whether  *)
(* they are nil.                                                           *)

\* ast.Walk(v, node.Body) for a function without body: the node is a nil
\* *ast.BlockStmt
NilBodyItem(p) == [op |-> "walknil", path |-> p, before |-> {}]

\* The names Visit declares at a function declaration: its name and the
\* names of Type.Params.List
MainFuncDeclNames(node) == <<node.name>> \o Flatten(node.params.list)

\* case *ast.FuncDecl: push a scope, add the names, ast.Walk(v, node.Body);
\* popScope and return nil follow when that walk is done
MainVisitFuncDecl ==
    /\ AtNode({"FuncDecl"})
    /\ scopeStack' = addNames(pushScope(scopeStack), MainFuncDeclNames(ThisNode))
    /\ agenda' = (IF Len(ThisNode.kids) = 3
                  THEN <<WalkItem(Here \o <<3>>)>> ELSE <<NilBodyItem(Here)>>)
                 \o <<PopItem(Here, Visible(scopeStack))>> \o Tail(agenda)
    /\ CountsUnchanged /\ LogUnchanged /\ RunUnchanged

\* case *ast.BlockStmt with a nil node: pushScope, then node.List
\* dereferences nil and the run panics (nothing recovers)
MainVisitNilBlockStmt ==
    /\ pc = "walk"
    /\ agenda # <<>>
    /\ Head(agenda).op = "walknil"
    /\ scopeStack' = pushScope(scopeStack)
    /\ pc' = "panic"
    /\ UNCHANGED <<files, fileIdx, srcLines, agenda, mvars>>
    /\ CountsUnchanged /\ LogUnchanged

MainVisitBasicLit == VisitBasicLitBy("main.go")

NextMain ==
    \/ AnalyzeFileFails
    \/ AnalyzeFileWalks
    \/ VisitFile
    \/ MainVisitFuncDecl
    \/ VisitBlockStmt
    \/ MainVisitNilBlockStmt
    \/ PopScope
    \/ VisitAssignStmt
    \/ VisitDeclStmt
    \/ MainVisitBasicLit
    \/ VisitOther
    \/ AnalyzeFileReturns

SpecMain == Init /\ [][NextMain]_vars

----------------------------------------------------------------------------
(* What the tree says, for the properties of the walk *)

Range(f) == {f[i] : i \in DOMAIN f}

\* The name of a function declaration, the names of its parameters and the
\* names of its results
SignatureNames(node) ==
    {node.name}
    \cup UNION {Range(f) : f \in Range(node.params.list)}
    \cup UNION {Range(f) : f \in Range(node.results.list)}

\* The identifiers on the left of a := statement
ShortDeclNames(node) ==
    IF node.kind = "AssignStmt" /\ node.tok = ":="
    THEN {node.kids[i].name : i \in {j \in 1..node.nlhs : node.kids[j].kind = "Ident"}}
    ELSE {}

\* The names of a local var, const or type declaration
LocalDeclNames(node) ==
    IF node.kind = "DeclStmt"
    THEN UNION {{sp.kids[i].name : i \in 1..(IF sp.kind = "ValueSpec" THEN sp.nlhs ELSE 1)} :
                   sp \in Range(node.kids[1].kids)}
    ELSE {}

\* The names a node declares
Declares(node) ==
    IF node.kind = "FuncDecl" THEN SignatureNames(node)
    ELSE ShortDeclNames(node) \cup LocalDeclNames(node)

\* The construct whose frame is on top when node d is visited and declares:
\* d itself for a function declaration, else the nearest block or function
\* declaration around d, else the file.
FrameOf(t, d) ==
    IF NodeAt(t, d).kind = "FuncDecl" THEN d
    ELSE LET around == {n \in 0..(Len(d) - 1) :
                          NodeAt(t, SubSeq(d, 1, n)).kind \in {"BlockStmt", "FuncDecl"}}
         IN IF around = {} THEN <<>>
            ELSE SubSeq(d, 1, CHOOSE n \in around : \A m \in around : m <= n)

\* A declaration other than s has declared x before literal l is visited,
\* into a frame that is open at l
DeclaredElsewhere(t, x, s, l) ==
    \E d \in Paths(t) \ {s} :
        /\ x \in Declares(NodeAt(t, d))
        /\ WalkedBefore(d, l)
        /\ IsPrefix(FrameOf(t, d), l)

\* The := statements that are statements of block b: <<index, name>>
ShortDecls(t, b) ==
    {<<i, x>> \in (1..Len(NodeAt(t, b).kids)) \X {nA, nB, nF, nAA} :
        x \in ShortDeclNames(NodeAt(t, b \o <<i>>))}

\* The blocks around node l
BlocksAround(t, l) ==
    {SubSeq(l, 1, n) : n \in {m \in 0..(Len(l) - 1) :
                                NodeAt(t, SubSeq(l, 1, m)).kind = "BlockStmt"}}

\* The text of the string literal at l
TextAt(t, l) == Trim(NodeAt(t, l).value)

----------------------------------------------------------------------------
(* Properties of the walk (specification Spec) *)

\* C2: within one block, a name introduced by a := statement S is visible at
\* every string literal of the statements after S, and at a string literal of
\* a statement before S only when another declaration has already declared
\* the same name into a frame that is open there.
C2_ShortDeclOrder ==
    \A k \in 1..Len(seen) :
      \A b \in BlocksAround(Tree, seen[k].path) :
        \A ix \in ShortDecls(Tree, b) :
          LET j == seen[k].path[Len(b) + 1]
          IN /\ ix[1] < j => ix[2] \in seen[k].visible
             /\ (ix[1] > j /\ ix[2] \in seen[k].visible) =>
                   DeclaredElsewhere(Tree, ix[2], b \o <<ix[1]>>, seen[k].path)

\* A block with a := between two literals: the name is not visible at the
\* first and visible at the second.
C2_Witness ==
    \E k1, k2 \in 1..Len(seen) :
      \E b \in BlocksAround(Tree, seen[k1].path) \cap BlocksAround(Tree, seen[k2].path) :
        \E ix \in ShortDecls(Tree, b) :
          /\ seen[k1].path[Len(b) + 1] < ix[1]
          /\ ix[1] < seen[k2].path[Len(b) + 1]
          /\ ix[2] \notin seen[k1].visible
          /\ ix[2] \in seen[k2].visible

\* C3: when the walker leaves a block or a function declaration, the visible
\* names are those it had on entering it.
C3_ScopeRestored ==
    \A k \in 1..Len(left) : left[k].after = left[k].before

\* A block inside a block has been left, and names had been declared in it
\* that were not visible outside.
C3_Witness ==
    \E k \in 1..Len(left) :
        /\ NodeAt(Tree, left[k].path).kind = "BlockStmt"
        /\ Cardinality(BlocksAround(Tree, left[k].path)) >= 2
        /\ ~(left[k].top \subseteq left[k].before)

\* C4: stringCount counts the string literals visited and matchCount those in
\* which a visible name occurs, one for each; at the end of the walk of a
\* file stringCount is the number of its string literals.
C4_Counters ==
    /\ stringCount = Len(seen)
    /\ matchCount = Len(matches)
    /\ matchCount =
          Cardinality({k \in 1..Len(seen) :
                         \E x \in seen[k].visible : Occurs(TextAt(Tree, seen[k].path), x)})
    /\ WalkDone => stringCount = Cardinality(StringLits(Tree))

\* C5: at the end of a walk every string literal of the tree has been checked
\* exactly once.
C5_EveryLiteralOnce ==
    WalkDone =>
        \A l \in StringLits(Tree) :
            Cardinality({k \in 1..Len(seen) : seen[k].path = l}) = 1

\* No string literal is checked twice (the part of C5 that holds).
C5_NoLiteralTwice ==
    \A k1, k2 \in 1..Len(seen) : seen[k1].path = seen[k2].path => k1 = k2

\* C6: a file of one function with a parameter p and one string literal, in
\* its body, in which p and no other visible name occurs, yields exactly one
\* match, with identifier p.
C6_OneParameterOneLiteral ==
    \A p \in {nA, nAA} :
        ( /\ WalkDone
          /\ Len(Tree.kids) = 1
          /\ Tree.kids[1].kind = "FuncDecl"
          /\ p \in Range(FieldNames(Tree.kids[1].params))
          /\ Cardinality(StringLits(Tree)) = 1
          /\ \A l \in StringLits(Tree) :
                /\ IsPrefix(<<1, 3>>, l)
                /\ Occurs(TextAt(Tree, l), p)
                /\ \A k \in 1..Len(seen) : \A x \in seen[k].visible \ {p} :
                      ~Occurs(TextAt(Tree, l), x) )
        => /\ Len(matches) = 1
           /\ matches[1].Identifier = p

\* C7: a function declaration pushes one frame that holds its name, its
\* parameter names and its named results, and nothing else; they are visible
\* at every string literal of its body and not after the declaration; a
\* declaration without body, results or parameter names is walked like any
\* other.
C7_FuncDeclNames ==
    /\ \A k \in 1..Len(seen) :
          \A n \in 1..Len(seen[k].path) :
              LET d == SubSeq(seen[k].path, 1, n - 1)
              IN (NodeAt(Tree, d).kind = "FuncDecl" /\ seen[k].path[n] = 3) =>
                     SignatureNames(NodeAt(Tree, d)) \subseteq seen[k].visible
    /\ \A k \in 1..Len(left) :
          LET node == NodeAt(Tree, left[k].path)
          IN node.kind = "FuncDecl" =>
                /\ left[k].depth = 2
                /\ left[k].top = SignatureNames(node)
                /\ left[k].after \cap SignatureNames(node) = {}
    /\ WalkDone =>
          \A i \in 1..Len(Tree.kids) :
              Tree.kids[i].kind = "FuncDecl" =>
                  \E k \in 1..Len(left) : left[k].path = <<i>>

\* The function with an unnamed parameter and a named result has been walked
\* and left, and a string literal of its body has been checked.
C7_Witness ==
    \E k \in 1..Len(left) :
        /\ NodeAt(Tree, left[k].path).kind = "FuncDecl"
        /\ NodeAt(Tree, left[k].path).results = Fields(<<(<<nB>>)>>)
        /\ NodeAt(Tree, left[k].path).params = Fields(<<(<<>>)>>)
        /\ \E j \in 1..Len(seen) : IsPrefix(left[k].path, seen[j].path)

\* C8: a name that two open frames declare is among the names inScope
\* returns, and popping a frame that declares x leaves x visible when a frame
\* below declares x too.
C8_Shadowing ==
    /\ \A i, j \in 1..Len(scopeStack) :
          i < j => \A x \in scopeStack[i] \cap scopeStack[j] :
                       \A names \in inScope(scopeStack) : x \in Range(names)
    /\ \A k \in 1..Len(left) : (left[k].top \cap left[k].before) \subseteq left[k].after

\* A block that declares a name already visible outside it has been left.
C8_Witness ==
    \E k \in 1..Len(left) :
        /\ NodeAt(Tree, left[k].path).kind = "BlockStmt"
        /\ left[k].top \cap left[k].before # {}

----------------------------------------------------------------------------
(* Properties of the scope stack and of the records (specification Spec) *)

\* Where the walk is: the node about to be visited, or the function
\* declaration or block about to be left
Position == Head(agenda)

\* The function declarations and blocks that are open at the position: those
\* around it, and the one about to be left
OpenConstructs ==
    IF agenda = <<>> THEN {}
    ELSE {SubSeq(Position.path, 1, n) :
             n \in {m \in 0..(Len(Position.path) - (IF Position.op = "walk" THEN 1 ELSE 0)) :
                      NodeAt(Tree, SubSeq(Position.path, 1, m)).kind
                          \in {"FuncDecl", "BlockStmt"}}}

\* The names that node n and the nodes below it declare into the frame that
\* is on top when n is visited: a block or a function declaration has a frame
\* of its own
RECURSIVE DeclaredBelow(_)
DeclaredBelow(n) ==
    IF n.kind \in {"BlockStmt", "FuncDecl"} THEN {}
    ELSE ShortDeclNames(n) \cup LocalDeclNames(n)
         \cup UNION {DeclaredBelow(n.kids[i]) : i \in 1..Len(n.kids)}

\* The names that the declarations of the tree put into the frame of
\* construct c (the file, a function declaration or a block)
DeclaredInto(t, c) ==
    LET n == NodeAt(t, c)
    IN (IF n.kind = "FuncDecl" THEN SignatureNames(n) ELSE {})
       \cup UNION {DeclaredBelow(n.kids[i]) : i \in 1..Len(n.kids)}

\* The frame of the open construct c: the frames of the open constructs
\* around it are below it
FrameIndex(c) == 1 + Cardinality({o \in OpenConstructs : IsPrefix(o, c)})

\* C13: during a walk the stack holds the file frame and, above it, one frame
\* for each function declaration and block that is open, in nesting order
\* (the frame of a construct holds only names declared into it, the frame of
\* a function declaration holds its signature names); popScope is never
\* called with the file frame alone; at the end of the walk the stack is the
\* file frame.
C13_StackInvariant ==
    /\ pc = "walk" =>
          /\ Len(scopeStack) = 1 + Cardinality(OpenConstructs)
          /\ scopeStack[1] \subseteq DeclaredInto(Tree, <<>>)
          /\ \A c \in OpenConstructs :
                /\ scopeStack[FrameIndex(c)] \subseteq DeclaredInto(Tree, c)
                /\ NodeAt(Tree, c).kind = "FuncDecl" =>
                      SignatureNames(NodeAt(Tree, c)) \subseteq scopeStack[FrameIndex(c)]
    /\ \A k \in 1..Len(left) : left[k].depth >= 2
    /\ WalkDone => Len(scopeStack) = 1

\* Three constructs are open, one inside the other, and the frame of the
\* innermost holds a name.
C13_Witness ==
    /\ pc = "walk"
    /\ Cardinality(OpenConstructs) >= 3
    /\ Len(scopeStack) = 4
    /\ scopeStack[4] # {}

\* The calls of checkString that appended a record
Recorded == {k \in 1..Len(seen) : seen[k].rec # 0}

\* C14: the list of records has matchCount records, at most stringCount; its
\* records are, in order, those of the literals in which a name was found,
\* and the literals are visited in depth-first source order; a step appends
\* at most one record and leaves the records already in the list as they are.
C14_AppendOnly ==
    /\ [](/\ Len(matches) = matchCount
          /\ matchCount <= stringCount
          /\ Cardinality(Recorded) = Len(matches)
          /\ \A k1, k2 \in 1..Len(seen) :
                k1 < k2 => WalkedBefore(seen[k1].path, seen[k2].path)
          /\ \A k1, k2 \in Recorded : k1 < k2 => seen[k1].rec < seen[k2].rec
          /\ \A k \in Recorded :
                /\ seen[k].rec \in 1..Len(matches)
                /\ matches[seen[k].rec].LineNumber = NodeAt(Tree, seen[k].path).line
                /\ matches[seen[k].rec].StringText = TextAt(Tree, seen[k].path))
    /\ [][/\ Len(matches') \in {Len(matches), Len(matches) + 1}
          /\ SubSeq(matches', 1, Len(matches)) = matches]_vars

\* Two records are in the list, of literals on different lines, and the walk
\* went on after the second.
C14_Witness ==
    /\ Len(matches) >= 2
    /\ matches[1].LineNumber # matches[2].LineNumber
    /\ Len(seen) > Cardinality(Recorded)
    /\ seen[Len(seen)].rec = 0

\* C19: every record belongs to a literal that was visited; its identifier
\* was visible when the literal was visited, containsIdentifier is true of
\* the literal's text and the identifier, its file is the walker's file path
\* and its line number is the line of the literal.
C19_RecordsJustified ==
    /\ \A i \in 1..Len(matches) : \E k \in Recorded : seen[k].rec = i
    /\ \A k \in Recorded :
          LET r == matches[seen[k].rec]
          IN /\ r.Identifier \in seen[k].visible
             /\ r.StringText = TextAt(Tree, seen[k].path)
             /\ containsIdentifier(r.StringText, r.Identifier)
             /\ r.File = files[fileIdx].filePath
             /\ r.LineNumber = NodeAt(Tree, seen[k].path).line

\* A record has been made for a literal in a block, where a visible name was
\* not in the literal.
C19_Witness ==
    \E k \in Recorded :
        /\ seen[k].depth >= 3
        /\ \E x \in seen[k].visible :
              ~containsIdentifier(TextAt(Tree, seen[k].path), x)

\* The := statements and local declarations around literal l: the literal is
\* on the right-hand side of the statement, or among the values it declares
DeclaringAround(t, l) ==
    {s \in {SubSeq(l, 1, n) : n \in 0..(Len(l) - 1)} :
        ShortDeclNames(NodeAt(t, s)) \cup LocalDeclNames(NodeAt(t, s)) # {}}

\* C20: the names of a := statement and of a local declaration are declared
\* before the children of the statement are walked: a string literal of the
\* statement itself sees them, and when one of them occurs in the literal a
\* record is made, with that name when no other visible name occurs in it.
C20_DeclareBeforeChildren ==
    \A k \in 1..Len(seen) :
        \A s \in DeclaringAround(Tree, seen[k].path) :
            \A x \in ShortDeclNames(NodeAt(Tree, s)) \cup LocalDeclNames(NodeAt(Tree, s)) :
                LET text == TextAt(Tree, seen[k].path)
                IN /\ x \in seen[k].visible
                   /\ Occurs(text, x) => seen[k].rec # 0
                   /\ ( /\ Occurs(text, x)
                        /\ \A y \in seen[k].visible \ {x} : ~Occurs(text, y) )
                      => matches[seen[k].rec].Identifier = x

\* A record names the variable of the := statement whose right-hand side the
\* literal is, and nothing else had declared that name.
C20_Witness ==
    \E k \in Recorded :
        \E s \in DeclaringAround(Tree, seen[k].path) :
            \E x \in ShortDeclNames(NodeAt(Tree, s)) :
                /\ matches[seen[k].rec].Identifier = x
                /\ ~DeclaredElsewhere(Tree, x, s, seen[k].path)

\* The := init clauses of the if statements that are statements of block b:
\* <<index of the if statement, name>>
IfInitDecls(t, b) ==
    {<<i, x>> \in (1..Len(NodeAt(t, b).kids)) \X {nA, nB, nF, nAA} :
        /\ NodeAt(t, b \o <<i>>).kind = "IfStmt"
        /\ x \in ShortDeclNames(NodeAt(t, b \o <<i, 1>>))}

\* The function declarations and blocks around node l
FramesAround(t, l) ==
    {n \in 0..(Len(l) - 1) : NodeAt(t, SubSeq(l, 1, n)).kind \in {"FuncDecl", "BlockStmt"}}

\* C21: only function declarations and blocks push frames, and the name of
\* the := init clause of an if statement goes into the frame of the block the
\* if statement is a statement of: it is visible in the if statement and at
\* the later statements of that block, and it is in the frame of that block
\* when the block is left.
C21_InitClauseLeaks ==
    /\ \A k \in 1..Len(seen) :
          /\ seen[k].depth = 1 + Cardinality(FramesAround(Tree, seen[k].path))
          /\ \A b \in BlocksAround(Tree, seen[k].path) :
                \A ix \in IfInitDecls(Tree, b) :
                    ix[1] <= seen[k].path[Len(b) + 1] => ix[2] \in seen[k].visible
    /\ \A k \in 1..Len(left) :
          NodeAt(Tree, left[k].path).kind = "BlockStmt" =>
              \A ix \in IfInitDecls(Tree, left[k].path) : ix[2] \in left[k].top

\* A literal of a statement after an if statement sees the name of the init
\* clause, which nothing else had declared.
C21_Witness ==
    \E k \in 1..Len(seen) :
        \E b \in BlocksAround(Tree, seen[k].path) :
            \E ix \in IfInitDecls(Tree, b) :
                /\ ix[1] < seen[k].path[Len(b) + 1]
                /\ ix[2] \in seen[k].visible
                /\ ~DeclaredElsewhere(Tree, ix[2], b \o <<ix[1], 1>>, seen[k].path)

\* The top-level function declarations other than the one literal l is in
OtherFuncDecls(t, l) ==
    {j \in 1..Len(t.kids) : t.kids[j].kind = "FuncDecl" /\ j # l[1]}

\* C22: the file frame, the bottom of the stack, is empty throughout a walk;
\* a string literal outside every function declaration and block sees no name
\* and yields no record; the name of a function is visible in another
\* function only when a declaration of that function declares the same name.
C22_FileFrameEmpty ==
    /\ Len(scopeStack) >= 1 => scopeStack[1] = {}
    /\ \A k \in 1..Len(seen) :
          /\ FramesAround(Tree, seen[k].path) = {} =>
                /\ seen[k].visible = {}
                /\ seen[k].rec = 0
          /\ \A j \in OtherFuncDecls(Tree, seen[k].path) :
                Tree.kids[j].name \in seen[k].visible =>
                    DeclaredElsewhere(Tree, Tree.kids[j].name, <<j>>, seen[k].path)

\* A literal at the top level holds the name of a function declared before
\* it, and no record has been made for it.
C22_Witness ==
    \E k \in 1..Len(seen) :
        /\ FramesAround(Tree, seen[k].path) = {}
        /\ seen[k].rec = 0
        /\ \E j \in 1..(seen[k].path[1] - 1) :
              /\ Tree.kids[j].kind = "FuncDecl"
              /\ Occurs(TextAt(Tree, seen[k].path), Tree.kids[j].name)

\* The frames, bottom first, that hold a name the literal of call k contains,
\* contains being what the specification asks (Occurs) or what the code
\* computes (containsIdentifier)
FramesHit(k, asked) ==
    {i \in 1..Len(seen[k].frames) :
        \E x \in seen[k].frames[i] :
            IF asked THEN Occurs(TextAt(Tree, seen[k].path), x)
            ELSE containsIdentifier(TextAt(Tree, seen[k].path), x)}

Lowest(S) == CHOOSE i \in S : \A j \in S : i <= j

\* The literal of call k contains a name of an outer frame and a different
\* name of an inner frame
TwoFramesHit(k, asked) ==
    \E i, j \in FramesHit(k, asked) :
        /\ i < j
        /\ \E x \in seen[k].frames[i], y \in seen[k].frames[j] :
              /\ x # y
              /\ IF asked
                 THEN Occurs(TextAt(Tree, seen[k].path), x)
                      /\ Occurs(TextAt(Tree, seen[k].path), y)
                 ELSE containsIdentifier(TextAt(Tree, seen[k].path), x)
                      /\ containsIdentifier(TextAt(Tree, seen[k].path), y)

\* C23: when a literal contains a name of an outer open frame and a different
\* name of an inner open frame, a record is made and its identifier is a name
\* of the outermost frame that holds a name the literal contains.
C23_OuterFrameWins ==
    \A k \in 1..Len(seen) :
        TwoFramesHit(k, TRUE) =>
            /\ seen[k].rec # 0
            /\ matches[seen[k].rec].Identifier
                  \in seen[k].frames[Lowest(FramesHit(k, TRUE))]

\* The part of C23 that holds: the same, for the names containsIdentifier
\* finds in the literal.
C23_OuterHitWins ==
    \A k \in 1..Len(seen) :
        TwoFramesHit(k, FALSE) =>
            /\ seen[k].rec # 0
            /\ matches[seen[k].rec].Identifier
                  \in seen[k].frames[Lowest(FramesHit(k, FALSE))]

----------------------------------------------------------------------------
(* Properties of the scope visitor of src/main.go (specification SpecMain) *)

\* The function declarations of the file that have no body
WithoutBody(t) ==
    {d \in Paths(t) : NodeAt(t, d).kind = "FuncDecl" /\ Len(NodeAt(t, d).kids) = 2}

\* C18: walking a function declaration without body raises no fault: Visit
\* pushes the function frame, declares the names, pops the frame and leaves
\* the stack as deep as it was, and no literal is observed meanwhile.
C18_NoBodyNoFault ==
    /\ pc # "panic"
    /\ \A k \in 1..Len(left) :
          left[k].path \in WithoutBody(Tree) =>
              /\ left[k].depth = 2
              /\ left[k].top = Range(MainFuncDeclNames(NodeAt(Tree, left[k].path)))
              /\ left[k].after = left[k].before
              /\ \A j \in 1..Len(seen) : ~IsPrefix(left[k].path, seen[j].path)
    /\ WalkDone => \A d \in WithoutBody(Tree) : \E k \in 1..Len(left) : left[k].path = d

\* The part of C18 that holds: the only fault is the one at a function
\* declaration without body, and a declaration with a body is left with the
\* stack as deep as it was.
C18_FaultOnlyWithoutBody ==
    /\ pc = "panic" =>
          /\ Position.op = "walknil"
          /\ Position.path \in WithoutBody(Tree)
    /\ \A k \in 1..Len(left) :
          /\ left[k].path \notin WithoutBody(Tree)
          /\ left[k].after = left[k].before

----------------------------------------------------------------------------
(* Properties of a run (specification SpecRun) *)

Identifiers(ms) == [i \in 1..Len(ms) |-> ms[i].Identifier]

\* C9: two analyses of the same tree record the same identifier for each
\* literal.
C9_SameIdentifiers ==
    \A i, j \in 1..Len(returned) :
        files[i] = files[j] =>
            Identifiers(returned[i].matches) = Identifiers(returned[j].matches)

RECURSIVE SumOf(_, _)
SumOf(rs, field) ==
    IF rs = <<>> THEN 0 ELSE Head(rs)[field] + SumOf(Tail(rs), field)

\* The counts of the walk that has not returned yet
Pending(count) == IF pc = "walk" THEN count ELSE 0

\* C15: totalStrings is the sum of the stringCount values that
\* analyzeFileWithLines has returned, and matchedStrings the sum of the
\* matchCount values, the counts of the file being walked added; neither
\* counter decreases; matchedStrings <= totalStrings.
C15_RunningTotals ==
    /\ [](/\ totalStrings = SumOf(returned, "stringCount") + Pending(stringCount)
          /\ matchedStrings = SumOf(returned, "matchCount") + Pending(matchCount)
          /\ matchedStrings <= totalStrings)
    /\ [][/\ totalStrings' >= totalStrings
          /\ matchedStrings' >= matchedStrings]_vars

\* Two files with string literals have been analysed, and not every literal
\* matched.
C15_Witness ==
    /\ pc = "idle"
    /\ Len(returned) = 2
    /\ returned[1].stringCount > 0
    /\ returned[2].stringCount > 0
    /\ 0 < matchedStrings
    /\ matchedStrings < totalStrings

\* Two analyses that walked the same tree
SameTreeWalked(i, j) ==
    /\ files[i].tree = files[j].tree
    /\ files[i].filePath = files[j].filePath
    /\ files[i].parseOk /\ files[i].lines # <<>>
    /\ files[j].parseOk /\ files[j].lines # <<>>

\* srcLines[line-1], or the empty string when line-1 is out of range
LineOf(lines, line) == IF line - 1 >= 0 /\ line - 1 < Len(lines) THEN lines[line] ELSE ""

\* C16: two walks of the same tree return the same stringCount, the same
\* matchCount and records that agree on file, line number, identifier and
\* literal text, whatever the source lines they were given; EntireLine is the
\* source line of the record's line number, or empty when there is none.
C16_LinesOnlyContext ==
    \A i, j \in 1..Len(returned) :
        SameTreeWalked(i, j) =>
            /\ returned[i].stringCount = returned[j].stringCount
            /\ returned[i].matchCount = returned[j].matchCount
            /\ Len(returned[i].matches) = Len(returned[j].matches)
            /\ \A k \in 1..Len(returned[i].matches) :
                  LET ri == returned[i].matches[k]
                      rj == returned[j].matches[k]
                  IN /\ ri.File = rj.File
                     /\ ri.LineNumber = rj.LineNumber
                     /\ ri.Identifier = rj.Identifier
                     /\ ri.StringText = rj.StringText
                     /\ ri.EntireLine = LineOf(files[i].lines, ri.LineNumber)

\* The part of C16 that holds: all of it but the identifiers.
C16_AllButIdentifier ==
    \A i, j \in 1..Len(returned) :
        SameTreeWalked(i, j) =>
            /\ returned[i].stringCount = returned[j].stringCount
            /\ returned[i].matchCount = returned[j].matchCount
            /\ Len(returned[i].matches) = Len(returned[j].matches)
            /\ \A k \in 1..Len(returned[i].matches) :
                  LET ri == returned[i].matches[k]
                      rj == returned[j].matches[k]
                  IN /\ ri.File = rj.File
                     /\ ri.LineNumber = rj.LineNumber
                     /\ ri.StringText = rj.StringText
                     /\ ri.EntireLine = LineOf(files[i].lines, ri.LineNumber)

\* analyzeFileWithLines is called for a file that does not parse
FailingCall == pc = "idle" /\ fileIdx < Len(files) /\ ~NextFile.parseOk

\* C17: for a file that does not parse analyzeFileWithLines returns
\* (0, 0, 0, nil); no walker is made and nothing is walked, no record is
\* appended, and totalStrings and matchedStrings stay as they are.
C17_ParseFailure ==
    /\ [](\A i \in 1..Len(returned) :
             ~files[i].parseOk => returned[i] = FileResult(0, 0, 0, <<>>))
    /\ [][FailingCall =>
             /\ returned' = Append(returned, FileResult(0, 0, 0, <<>>))
             /\ pc' = "idle"
             /\ UNCHANGED <<agenda, scopeStack, srcLines, seen, left>>
             /\ UNCHANGED <<matches, stringCount, matchCount>>
             /\ UNCHANGED <<totalStrings, matchedStrings>>]_vars

\* A file that does not parse has been analysed after a file with matches.
C17_Witness ==
    /\ Len(returned) = 2
    /\ ~files[2].parseOk
    /\ returned[1].matchCount > 0
    /\ matchedStrings > 0

----------------------------------------------------------------------------
(* Specification SpecMatch: one call of containsIdentifier, for every     *)
(* literal and every name within the bounds.  The analyser does not run.  *)

NoRun ==
    /\ files = <<>>
    /\ fileIdx = 0
    /\ srcLines = <<>>
    /\ pc = "idle"
    /\ agenda = <<>>
    /\ scopeStack = <<>>
    /\ matches = <<>>
    /\ stringCount = 0
    /\ matchCount = 0
    /\ totalStrings = 0
    /\ matchedStrings = 0
    /\ seen = <<>>
    /\ left = <<>>
    /\ returned = <<>>

InitMatch ==
    /\ mLit \in SeqsUpTo(Chars, MaxLitLen)
    /\ mName \in SeqsUpTo(IdentChars, MaxNameLen)
    /\ mStart = 0
    /\ mPc = "call"
    /\ NoRun

\* if id == "" { return false };  searchStart := 0
MatchCall ==
    /\ mPc = "call"
    /\ mPc' = IF mName = <<>> THEN "false" ELSE "loop"
    /\ mStart' = 0
    /\ UNCHANGED <<mLit, mName, wvars>>

\* one iteration of the for loop
MatchIter ==
    /\ mPc = "loop"
    /\ LET r == containsIdentifierIter(mLit, mName, mStart)
       IN /\ mPc' = IF r.ret = "continue" THEN "loop" ELSE r.ret
          /\ mStart' = r.searchStart
    /\ UNCHANGED <<mLit, mName, wvars>>

NextMatch == MatchCall \/ MatchIter

SpecMatch == InitMatch /\ [][NextMatch]_vars

MatchReturned == mPc \in {"true", "false"}

\* C1: containsIdentifier(L, n) returns true exactly when some position of L
\* holds n with a boundary character (or the end of L) on either side.
C1_ExactlyWhenOccurs ==
    MatchReturned => ((mPc = "true") <=> Occurs(mLit, mName))

\* C10: whenever containsIdentifier(L, n) returns true, n is not empty and L
\* holds an occurrence of n with a boundary character (or the end of L) on
\* either side; and it is true for a name that follows a boundary character
\* at the end of the literal.
C10_Sound ==
    /\ (mPc = "true") =>
          /\ mName # <<>>
          /\ \E p \in 0..Len(mLit) : AcceptedAt(mLit, mName, p)
    /\ (MatchReturned /\ mLit = <<"1", " ", "a">> /\ mName = <<"a">>) =>
          mPc = "true"

\* The call returned true for an occurrence inside the literal, with a
\* character on either side of it.
C10_Witness ==
    /\ mPc = "true"
    /\ \E p \in 1..Len(mLit) :
          /\ AcceptedAt(mLit, mName, p)
          /\ p + Len(mName) < Len(mLit)

\* The positions of the literal that hold the name
Occurrences(literal, id) ==
    {p \in 0..(Len(literal) - Len(id)) : Slice(literal, p, p + Len(id)) = id}

\* The position the call accepted: pos of the iteration that returned true
AcceptedPos == mStart + Index(From(mLit, mStart), mName)

\* C11: when every occurrence of the name in the literal is immediately
\* preceded by '%' or by '\', containsIdentifier returns false ("%a" and "\a"
\* with name a); isBoundary is false for '%' and for '\'; and the character
\* before and the character after an accepted occurrence are neither.
C11_FormatExcluded ==
    /\ ( /\ MatchReturned
         /\ \A p \in Occurrences(mLit, mName) :
               p > 0 /\ At(mLit, p - 1) \in {"%", "\\"} )
       => mPc = "false"
    /\ ~isBoundary("%")
    /\ ~isBoundary("\\")
    /\ (mPc = "true") =>
          /\ AcceptedPos > 0 => At(mLit, AcceptedPos - 1) \notin {"%", "\\"}
          /\ AcceptedPos + Len(mName) < Len(mLit) =>
                At(mLit, AcceptedPos + Len(mName)) \notin {"%", "\\"}

\* The call returned false for a literal that holds the name, each time after
\* '%' or '\', and at least once with a boundary character or nothing after.
C11_Witness ==
    /\ mPc = "false"
    /\ Occurrences(mLit, mName) # {}
    /\ mName # <<>>
    /\ \A p \in Occurrences(mLit, mName) :
          p > 0 /\ At(mLit, p - 1) \in {"%", "\\"}
    /\ \E p \in Occurrences(mLit, mName) :
          \/ p + Len(mName) = Len(mLit)
          \/ isBoundary(At(mLit, p + Len(mName)))

\* C12: the character before and the character after the occurrence that
\* containsIdentifier accepts, when they exist, are not identifier characters
\* (letter, digit, underscore).
C12_ProperIdentifier ==
    (mPc = "true") =>
        /\ AcceptedPos > 0 => At(mLit, AcceptedPos - 1) \notin IdentChars
        /\ AcceptedPos + Len(mName) < Len(mLit) =>
              At(mLit, AcceptedPos + Len(mName)) \notin IdentChars

\* The part of C12 that holds: no letter and no digit is next to the accepted
\* occurrence.
C12_NoLetterNoDigit ==
    (mPc = "true") =>
        /\ AcceptedPos > 0 => At(mLit, AcceptedPos - 1) \notin {"a", "1"}
        /\ AcceptedPos + Len(mName) < Len(mLit) =>
              At(mLit, AcceptedPos + Len(mName)) \notin {"a", "1"}

\* Specification SpecMatchLive: the call goes on until it returns (a Go
\* function that is running takes its next step).
SpecMatchLive == SpecMatch /\ WF_vars(NextMatch)

\* The indexes an iteration entered with searchStart = mStart reads are
\* indexes of the literal: the start of the slice, pos-1 and end+1
IndexesInBounds ==
    LET idx == Index(From(mLit, mStart), mName)
        pos == mStart + idx
        end == pos + Len(mName) - 1
    IN /\ mStart \in 0..Len(mLit)
       /\ idx # -1 =>
             /\ end <= Len(mLit) - 1
             /\ pos > 0 => pos - 1 \in 0..(Len(mLit) - 1)
             /\ end < Len(mLit) - 1 => end + 1 \in 0..(Len(mLit) - 1)

\* C24: containsIdentifier returns, for every literal and every name; an
\* iteration that does not return increases searchStart and leaves it at most
\* len(literal); every index read is an index of the literal.
C24_Terminates ==
    /\ [](mPc = "loop" => IndexesInBounds)
    /\ [][(mPc = "loop" /\ mPc' = "loop") =>
             /\ mStart' > mStart
             /\ mStart' <= Len(mLit)]_vars
    /\ <>MatchReturned

\* The call has returned after searchStart reached the end of the literal.
C24_Witness ==
    /\ MatchReturned
    /\ mName # <<>>
    /\ Len(mLit) >= 2
    /\ mStart = Len(mLit)

====
